---------------------------- MODULE Spec2Model ----------------------------
(***************************************************************************)
(* A model of the calendar module: the taxonomy resolver and the           *)
(* permission predicate (types), the date utilities (utils/dateUtils),     *)
(* the Calendar component (components/Calendar.tsx) and the                *)
(* AppointmentForm component (components/AppointmentForm.tsx).             *)
(*                                                                         *)
(* A Date is its time value in whole minutes since 1970-01-01T00:00 and    *)
(* the local time zone is UTC without daylight saving; 23:59:59.999 is     *)
(* the last minute of its day.  A timestamp string is a record of the      *)
(* fields written in it (kind "iso"), or a text that is no ISO 8601        *)
(* timestamp (kind "garbage"), or the empty string (kind "empty").         *)
(* undefined is None, a present value v is Some(v).                        *)
(***************************************************************************)
EXTENDS Integers, Sequences, FiniteSets, TLC

VARIABLES
  \* the host calling an exported pure function: its name, arguments, result
  apiFn, apiArgs, apiRet,
  \* Calendar: props
  appointments, view, startOfWeekDay,
  \* Calendar: state (useState)
  currentDate, selectedDate, selectedAppointment,
  \* Calendar: values computed by a render (useMemo / render functions)
  filteredAppointments, viewDates, dayAppointments, sortedAppointments,
  \* Calendar: when the last step was a click, the element clicked and the
  \* calls of eventHandlers.onDateClick and eventHandlers.onAppointmentClick
  \* the click has made
  lastClick,
  \* AppointmentForm: props, state (useState), the data handed to onSubmit
  formProps, formData, errors, submitted,
  \* AppointmentForm: the status after initialisation, the input events and
  \* submit attempts so far
  initialStatus, interactions, submits,
  \* AppointmentForm: the field and value of the event when the last step was
  \* a change of a datetime input
  lastInput,
  \* ConfigurableCalendarExample: state (useState).  The names of the source
  \* are appointments, selectedAppointment, showForm, loading, currentUserRole
  hostAppointments, hostSelectedAppointment, hostShowForm, hostLoading,
  hostUserRole,
  \* ConfigurableCalendarExample: the handleAppointmentSubmit call waiting in
  \* its await, the clock, the appointments created and the submits handled
  \* so far
  hostPending, hostNow, hostCreated, hostSubmits,
  \* generateTimeSlots: where the call is, its arguments and its locals
  slotsPc, slotsArgs, minutes, slots

apiVars == <<apiFn, apiArgs, apiRet>>
calVars == <<appointments, view, startOfWeekDay, currentDate, selectedDate,
             selectedAppointment, filteredAppointments, viewDates,
             dayAppointments, sortedAppointments, lastClick>>
formVars == <<formProps, formData, errors, submitted, initialStatus,
              interactions, submits, lastInput>>
hostVars == <<hostAppointments, hostSelectedAppointment, hostShowForm,
              hostLoading, hostUserRole, hostPending, hostNow, hostCreated,
              hostSubmits>>
slotVars == <<slotsPc, slotsArgs, minutes, slots>>
vars == <<apiVars, calVars, formVars, hostVars, slotVars>>

None == <<>>
Some(v) == <<v>>

\* Body(e) with e evaluated once: a const the code computes and then reads
\* several times
Bind(e, Body(_)) == CHOOSE r \in {Body(v) : v \in {e}} : TRUE

-----------------------------------------------------------------------------
(* Bounds of the model *)

\* longest appointment list handed to the Calendar
MaxAppts == 2
\* the reference date stays within this many days after NavFirstDay
NavSpanDays == 33
\* most submit attempts on one form
MaxSubmits == 1
\* most input events (typing, selecting, picking a time) on one form
MaxInteractions == 2
\* the user picks among the first MaxOptionPick options of a select
MaxOptionPick == 2
\* longest list of overlapping appointments handed to the Calendar
MaxAgendaAppts == 3
\* most appointments in the host's store
MaxHostAppts == 3
\* the host's clock stays within this many minutes after HostFirstNow
MaxHostMinutes == 1
\* most submits the host handles
MaxHostSubmits == 3
\* iterations of the loop of generateTimeSlots the model keeps: more than a
\* loop that advances can make between two of the model's times
MaxSlots == 4

-----------------------------------------------------------------------------
(* The Date object: time values, civil dates, setters *)

\* days since 1970-01-01 of the civil date y-m-d, m in 1..12
DayOfCivil(y, m, d) ==
  LET yy  == IF m <= 2 THEN y - 1 ELSE y
      era == yy \div 400
      yoe == yy - era * 400
      mp  == IF m > 2 THEN m - 3 ELSE m + 9
      doy == (153 * mp + 2) \div 5 + d - 1
      doe == yoe * 365 + yoe \div 4 - yoe \div 100 + doy
  IN  era * 146097 + doe - 719468

DaysFromCivil(y, m, d) == DayOfCivil(y, m, d)

\* the civil date [y, m (1..12), d] of a day number
CivilOfDay(z) ==
  LET zz  == z + 719468
      era == zz \div 146097
      doe == zz - era * 146097
      yoe == (doe - doe \div 1460 + doe \div 36524 - doe \div 146096) \div 365
      doy == doe - (365 * yoe + yoe \div 4 - yoe \div 100)
      mp  == (5 * doy + 2) \div 153
      d   == doy - (153 * mp + 2) \div 5 + 1
      m   == IF mp < 10 THEN mp + 3 ELSE mp - 9
  IN  [y |-> IF m <= 2 THEN yoe + era * 400 + 1 ELSE yoe + era * 400,
       m |-> m, d |-> d]

CivilFromDays(z) == CivilOfDay(z)

IsLeapYear(y) == (y % 4 = 0 /\ y % 100 # 0) \/ y % 400 = 0

DaysInMonth(y, m) ==
  IF m = 2 THEN (IF IsLeapYear(y) THEN 29 ELSE 28)
  ELSE IF m \in {4, 6, 9, 11} THEN 30 ELSE 31

\* ECMAScript MakeDay: month is 0-based and may lie outside 0..11, date may
\* lie outside the month
MakeDay(year, month, date) ==
  DaysFromCivil(year + month \div 12, (month % 12) + 1, 1) + date - 1

DayOf(t) == t \div 1440
TimeInDay(t) == t % 1440
MakeDate(day, time) == day * 1440 + time

getFullYear(t) == CivilFromDays(DayOf(t)).y
getMonth(t) == CivilFromDays(DayOf(t)).m - 1
getDate(t) == CivilFromDays(DayOf(t)).d
getDay(t) == (DayOf(t) + 4) % 7

setDate(t, date) ==
  MakeDate(MakeDay(getFullYear(t), getMonth(t), date), TimeInDay(t))
setMonth2(t, month, date) ==
  MakeDate(MakeDay(getFullYear(t), month, date), TimeInDay(t))
setMonth(t, month) == setMonth2(t, month, getDate(t))
setHours(t, h, mi) == MakeDate(DayOf(t), h * 60 + mi)

\* new Date(y, m, d, hh, mi) with m in 1..12, for writing down inputs
At(y, m, d, hh, mi) == MakeDate(DaysFromCivil(y, m, d), hh * 60 + mi)

-----------------------------------------------------------------------------
(* date-fns *)

startOfDay(t) == setHours(t, 0, 0)
endOfDay(t) == setHours(t, 23, 59)
startOfMonth(t) == setHours(setDate(t, 1), 0, 0)
endOfMonth(t) == setHours(setMonth2(t, getMonth(t) + 1, 0), 23, 59)
\* setDate(getDate() + n) moves a date by n civil days and keeps its time of
\* day; in a zone without clock changes that is n * 1440 minutes
addDays(t, n) == t + n * 1440
startOfWeek(t, weekStartsOn) ==
  LET day  == getDay(t)
      diff == (IF day < weekStartsOn THEN 7 ELSE 0) + day - weekStartsOn
  IN  setHours(addDays(t, 0 - diff), 0, 0)
endOfWeek(t, weekStartsOn) ==
  LET day  == getDay(t)
      diff == (IF day < weekStartsOn THEN -7 ELSE 0) + 6 - (day - weekStartsOn)
  IN  setHours(addDays(t, diff), 23, 59)
\* an addHours that adds minutes
addHours_minutes(t, n) == t + n
addHours(t, n) == t + n * 60
isSameDay(a, b) == startOfDay(a) = startOfDay(b)
isSameMonth(a, b) == getFullYear(a) = getFullYear(b) /\ getMonth(a) = getMonth(b)

\* date-fns parseISO: the fields of an ISO 8601 text are validated (month,
\* day of the month, hour 24 only as 24:00) and give a Date, anything else
\* gives an Invalid Date
IsoFieldsValid(s) ==
  /\ s.mo \in 1..12
  /\ s.d >= 1 /\ s.d <= DaysInMonth(s.y, s.mo)
  /\ IF s.h = 24 THEN s.mi = 0 ELSE s.h \in 0..23 /\ s.mi \in 0..59

parseISO(s) ==
  IF s.kind = "iso" /\ IsoFieldsValid(s)
  THEN Some(MakeDate(DaysFromCivil(s.y, s.mo, s.d), s.h * 60 + s.mi))
  ELSE None

\* a constructor that reads the empty text as the epoch
DateOf_epoch(text) == IF text.kind = "empty" THEN Some(0) ELSE parseISO(text)

\* new Date(text): the time value, None for an Invalid Date.  The model hands
\* the constructor ISO texts with valid fields, non-timestamps and ''.
DateOf(text) == parseISO(text)

\* Date.prototype.toISOString
toISOString(t) ==
  LET c == CivilFromDays(DayOf(t))
  IN  [kind |-> "iso", y |-> c.y, mo |-> c.m, d |-> c.d,
       h |-> TimeInDay(t) \div 60, mi |-> TimeInDay(t) % 60]

Iso(y, mo, d, h, mi) ==
  [kind |-> "iso", y |-> y, mo |-> mo, d |-> d, h |-> h, mi |-> mi]
Garbage == [kind |-> "garbage", y |-> 0, mo |-> 0, d |-> 0, h |-> 0, mi |-> 0]
EmptyString == [kind |-> "empty", y |-> 0, mo |-> 0, d |-> 0, h |-> 0, mi |-> 0]

-----------------------------------------------------------------------------
(* utils/dateUtils *)

\* a parser that lets out-of-range fields roll over, as the Date constructor
\* does with numeric arguments
parseISODate_rollover(dateString) ==
  IF dateString.kind = "iso"
  THEN Some(MakeDate(MakeDay(dateString.y, dateString.mo - 1, dateString.d),
                     dateString.h * 60 + dateString.mi))
  ELSE None

\* null is None
parseISODate(dateString) == parseISO(dateString)

\* a month grid whose weeks always start on Sunday
getMonthDates_sundayWeeks(date, weekStartsOn) ==
  LET calendarStart == startOfWeek(startOfMonth(date), 0)
      pushed == (endOfWeek(endOfMonth(date), 0) - calendarStart) \div 1440 + 1
  IN  [i \in 1..pushed |-> addDays(calendarStart, i - 1)]

\* a week that starts at getDate() - getDay() + weekStartsOn, which lies after
\* the date when its weekday is before weekStartsOn
getWeekDates_forward(date, weekStartsOn) ==
  LET weekStart == setHours(addDays(date, weekStartsOn - getDay(date)), 0, 0)
  IN  [i \in 1..7 |-> addDays(weekStart, i - 1)]

\* the dates the while loop pushes: calendarStart and the days after it, as
\* long as they are <= calendarEnd
DatesUpTo(currentDate_, calendarEnd) ==
  LET pushed == IF currentDate_ <= calendarEnd
                THEN (calendarEnd - currentDate_) \div 1440 + 1 ELSE 0
  IN  [i \in 1..pushed |-> addDays(currentDate_, i - 1)]

getMonthDates(date, weekStartsOn) ==
  LET monthStart == startOfMonth(date)
      monthEnd   == endOfMonth(date)
  IN  Bind(startOfWeek(monthStart, weekStartsOn), LAMBDA calendarStart :
      Bind(endOfWeek(monthEnd, weekStartsOn), LAMBDA calendarEnd :
        DatesUpTo(calendarStart, calendarEnd)))

getWeekDates(date, weekStartsOn) ==
  Bind(startOfWeek(date, weekStartsOn), LAMBDA weekStart :
    [i \in 1..7 |-> addDays(weekStart, i - 1)])

-----------------------------------------------------------------------------
(* types: the taxonomy resolver and the permission predicate *)

UserRole == {"patient", "doctor", "moderator", "admin"}

defaultEnumConfig ==
  [statuses |->
     << [value |-> "scheduled", label |-> "Scheduled", color |-> "#3b82f6"],
        [value |-> "confirmed", label |-> "Confirmed", color |-> "#10b981"],
        [value |-> "in_progress", label |-> "In Progress", color |-> "#8b5cf6"],
        [value |-> "completed", label |-> "Completed", color |-> "#6b7280"],
        [value |-> "cancelled", label |-> "Cancelled", color |-> "#ef4444"],
        [value |-> "rescheduled", label |-> "Rescheduled", color |-> "#f59e0b"],
        [value |-> "no_show", label |-> "No Show", color |-> "#f97316"] >>,
   priorities |->
     << [value |-> "routine", label |-> "Routine", color |-> "#10b981"],
        [value |-> "urgent", label |-> "Urgent", color |-> "#f59e0b"],
        [value |-> "emergency", label |-> "Emergency", color |-> "#ef4444"],
        [value |-> "follow_up", label |-> "Follow-up", color |-> "#3b82f6"] >>,
   types |->
     << [value |-> "consultation", label |-> "Consultation"],
        [value |-> "follow_up", label |-> "Follow-up"],
        [value |-> "emergency", label |-> "Emergency"],
        [value |-> "telemedicine", label |-> "Telemedicine"],
        [value |-> "lab_results", label |-> "Lab Results"],
        [value |-> "prescription_renewal", label |-> "Prescription Renewal"],
        [value |-> "preventive_care", label |-> "Preventive Care"],
        [value |-> "specialist_referral", label |-> "Specialist Referral"] >>]

EnumFields == {"statuses", "priorities", "types"}

\* JavaScript truthiness of an array: every array, the empty one too, is truthy
ArrayTruthy(list) == TRUE

OptionValues(list) == {list[i].value : i \in 1..Len(list)}

\* a resolver that keeps only the custom options whose value is a built-in one
getConfigurableOptions_validated(config, type) ==
  IF config # None
     /\ OptionValues(config[1][type]) \subseteq OptionValues(defaultEnumConfig[type])
  THEN config[1][type]
  ELSE defaultEnumConfig[type]

\* a resolver that puts the custom options in front of the built-in ones
getConfigurableOptions_merged(config, type) ==
  IF config # None
  THEN config[1][type] \o defaultEnumConfig[type]
  ELSE defaultEnumConfig[type]

getConfigurableOptions(config, type) ==
  IF config # None /\ ArrayTruthy(config[1][type])
  THEN config[1][type]
  ELSE defaultEnumConfig[type]

\* a gate that also lets the doctor role through
canModifyStatus_doctor(userRole, moderationEnabledArg) ==
  LET moderationEnabled ==
        IF moderationEnabledArg = None THEN FALSE ELSE moderationEnabledArg[1]
  IN  IF ~moderationEnabled THEN TRUE
      ELSE userRole \in {Some("doctor"), Some("moderator"), Some("admin")}

\* a gate whose omitted flag means enabled
canModifyStatus_defaultOn(userRole, moderationEnabledArg) ==
  LET moderationEnabled ==
        IF moderationEnabledArg = None THEN TRUE ELSE moderationEnabledArg[1]
  IN  IF ~moderationEnabled THEN TRUE
      ELSE userRole = Some("moderator") \/ userRole = Some("admin")

\* moderationEnabledArg is None when the argument is omitted (default false)
canModifyStatus(userRole, moderationEnabledArg) ==
  LET moderationEnabled ==
        IF moderationEnabledArg = None THEN FALSE ELSE moderationEnabledArg[1]
  IN  IF ~moderationEnabled THEN TRUE
      ELSE userRole = Some("moderator") \/ userRole = Some("admin")

-----------------------------------------------------------------------------
(* Inputs *)

OptionalRoles == {None} \cup {Some(r) : r \in UserRole}
OptionalFlags == {None, Some(TRUE), Some(FALSE)}

\* custom statuses that share no value with the defaults
DatabaseStatuses ==
  << [value |-> "pending_review", label |-> "Pending Review", color |-> "#fbbf24"],
     [value |-> "approved", label |-> "Approved", color |-> "#059669"] >>
\* built-in values in another order, one of them disabled
ReorderedStatuses ==
  << [value |-> "confirmed", label |-> "OK", color |-> "#10b981"],
     [value |-> "scheduled", label |-> "Booked", color |-> "#3b82f6",
      disabled |-> TRUE] >>
\* built-in values followed by a database one
ExtendedStatuses ==
  << [value |-> "scheduled", label |-> "Scheduled", color |-> "#3b82f6"],
     [value |-> "rejected", label |-> "Rejected", color |-> "#dc2626"] >>
DatabasePriorities ==
  << [value |-> "high_priority", label |-> "High Priority", color |-> "#dc2626"],
     [value |-> "low_priority", label |-> "Low Priority", color |-> "#6b7280"] >>
UrgentFirstPriorities ==
  << [value |-> "urgent", label |-> "Urgent", color |-> "#f59e0b"],
     [value |-> "routine", label |-> "Routine", color |-> "#10b981"] >>
DatabaseTypes ==
  << [value |-> "surgery", label |-> "Surgery"],
     [value |-> "therapy", label |-> "Therapy Session"] >>
TelemedicineOnly ==
  << [value |-> "telemedicine", label |-> "Telemedicine"] >>

StatusLists == {<<>>, DatabaseStatuses, ReorderedStatuses, ExtendedStatuses}
PriorityLists == {<<>>, DatabasePriorities, UrgentFirstPriorities}
TypeLists == {<<>>, DatabaseTypes, TelemedicineOnly}

EnumConfigs ==
  {None} \cup
  {Some([statuses |-> s, priorities |-> p, types |-> t]) :
     s \in StatusLists, p \in PriorityLists, t \in TypeLists}

\* timestamp texts: valid ones, ones whose fields are out of range, non-ISO
\* text and the empty string
TimestampTexts ==
  {Iso(2024, mo, d, h, 0) : mo \in {1, 2, 4, 13}, d \in {0, 1, 29, 30, 31},
                            h \in {9, 24, 25}}
  \cup {Iso(2023, 2, 29, 9, 0), Iso(2024, 2, 1, 24, 30), Iso(2024, 2, 1, 9, 60),
        Garbage, EmptyString}

-----------------------------------------------------------------------------
(* The host calls an exported pure function *)

CallCanModifyStatus ==
  \E userRole \in OptionalRoles, moderationEnabled \in OptionalFlags :
    /\ apiFn' = "canModifyStatus"
    /\ apiArgs' = [userRole |-> userRole, moderationEnabled |-> moderationEnabled]
    /\ apiRet' = canModifyStatus(userRole, moderationEnabled)
    /\ UNCHANGED <<calVars, formVars, hostVars, slotVars>>

CallGetConfigurableOptions ==
  \E config \in EnumConfigs, type \in EnumFields :
    /\ apiFn' = "getConfigurableOptions"
    /\ apiArgs' = [config |-> config, type |-> type]
    /\ apiRet' = getConfigurableOptions(config, type)
    /\ UNCHANGED <<calVars, formVars, hostVars, slotVars>>

CallParseISODate ==
  \E dateString \in TimestampTexts :
    /\ apiFn' = "parseISODate"
    /\ apiArgs' = [dateString |-> dateString]
    /\ apiRet' = parseISODate(dateString)
    /\ UNCHANGED <<calVars, formVars, hostVars, slotVars>>

\* dates handed to the grid helpers: the first day, a day in the middle and
\* the last day of months that begin on different weekdays and have 28, 29,
\* 30 and 31 days
GridMonths == {<<2021, 2>>, <<2023, 12>>, <<2024, 2>>, <<2024, 9>>, <<2026, 2>>}
GridDates ==
  UNION {{At(ym[1], ym[2], 1, 0, 0), At(ym[1], ym[2], 15, 15, 0),
          At(ym[1], ym[2], DaysInMonth(ym[1], ym[2]), 23, 59)} : ym \in GridMonths}
\* startOfWeekDay: number = 0
OptionalWeekStarts == {None} \cup {Some(n) : n \in 0..6}
WeekStartOrDefault(weekStart) ==
  IF weekStart = None THEN 0 ELSE weekStart[1]

CallGetMonthDates ==
  \E date \in GridDates, weekStart \in OptionalWeekStarts :
    /\ apiFn' = "getMonthDates"
    /\ apiArgs' = [date |-> date, startOfWeekDay |-> weekStart]
    /\ apiRet' = getMonthDates(date, WeekStartOrDefault(weekStart))
    /\ UNCHANGED <<calVars, formVars, hostVars, slotVars>>

CallGetWeekDates ==
  \E date \in GridDates, weekStart \in OptionalWeekStarts :
    /\ apiFn' = "getWeekDates"
    /\ apiArgs' = [date |-> date, startOfWeekDay |-> weekStart]
    /\ apiRet' = getWeekDates(date, WeekStartOrDefault(weekStart))
    /\ UNCHANGED <<calVars, formVars, hostVars, slotVars>>

-----------------------------------------------------------------------------
(* components/Calendar.tsx *)

CalendarView == {"month", "week", "day", "agenda"}

\* startDate and endDate of the filteredAppointments memo: two copies of
\* currentDate moved by the switch on the view
ViewWindow(date, v, weekStartsOn) ==
  CASE v = "month" ->
         [startDate |-> setDate(date, 1),
          endDate   |-> setMonth2(date, getMonth(date) + 1, 0)]
    [] v = "week" ->
         LET weekStart == setDate(date, getDate(date) - getDay(date) + weekStartsOn)
             weekEnd   == setDate(weekStart, getDate(weekStart) + 6)
         IN  [startDate |-> weekStart, endDate |-> weekEnd]
    [] v = "day" -> [startDate |-> date, endDate |-> date]
    [] OTHER -> [startDate |-> date, endDate |-> date]

\* the window test with both comparisons strict
InWindow_strict(apt, startDate, endDate) ==
  LET aptStart == parseISODate(apt.startTime)
      aptEnd   == parseISODate(apt.endTime)
  IN  IF aptStart = None \/ aptEnd = None THEN FALSE
      ELSE aptStart[1] < endDate /\ aptEnd[1] > startDate

\* the callback of appointments.filter in the filteredAppointments memo
InWindow(apt, startDate, endDate) ==
  LET aptStart == parseISODate(apt.startTime)
      aptEnd   == parseISODate(apt.endTime)
  IN  IF aptStart = None \/ aptEnd = None THEN FALSE
      ELSE aptStart[1] <= endDate /\ aptEnd[1] >= startDate

FilterAppointments(apts, date, v, weekStartsOn) ==
  IF Len(apts) = 0 THEN <<>>
  ELSE LET w == ViewWindow(date, v, weekStartsOn)
           Keep(apt) == InWindow(apt, w.startDate, w.endDate)
       IN  SelectSeq(apts, Keep)

ViewDates(date, v, weekStartsOn) ==
  CASE v = "month" -> getMonthDates(date, weekStartsOn)
    [] v = "week" -> getWeekDates(date, weekStartsOn)
    [] v = "day" -> <<date>>
    [] OTHER -> <<>>

\* a bucket test that looks at the start day and the end day only
OnDate_endsOnly(apt, date) ==
  LET aptStart == parseISODate(apt.startTime)
      aptEnd   == parseISODate(apt.endTime)
  IN  IF aptStart = None \/ aptEnd = None THEN FALSE
      ELSE isSameDay(aptStart[1], date) \/ isSameDay(aptEnd[1], date)

\* the callback of filteredAppointments.filter in getAppointmentsForDate
OnDate(apt, date) ==
  LET aptStart == parseISODate(apt.startTime)
      aptEnd   == parseISODate(apt.endTime)
  IN  IF aptStart = None \/ aptEnd = None THEN FALSE
      ELSE \/ isSameDay(aptStart[1], date)
           \/ (aptStart[1] < date /\ aptEnd[1] > date)
           \/ isSameDay(aptEnd[1], date)

getAppointmentsForDate(filtered, date) ==
  LET Keep(apt) == OnDate(apt, date)
  IN  SelectSeq(filtered, Keep)

\* what a render shows in the day cells: renderMonthView and renderWeekView
\* call getAppointmentsForDate for each of viewDates, renderDayView for
\* currentDate
DayCells(filtered, dates) ==
  [i \in 1..Len(dates) |-> getAppointmentsForDate(filtered, dates[i])]

\* the weekday names of renderMonthView and renderWeekView, indexed by getDay
weekDays == <<"Sun", "Mon", "Tue", "Wed", "Thu", "Fri", "Sat">>

\* headers that always start on Sunday
adjustedWeekDays_fixed(weekStartsOn) == weekDays

\* [...weekDays.slice(startOfWeek), ...weekDays.slice(0, startOfWeek)] with
\* weekStartsOn the value of defaultConfig.startOfWeek
adjustedWeekDays(weekStartsOn) ==
  SubSeq(weekDays, weekStartsOn + 1, Len(weekDays))
    \o SubSeq(weekDays, 1, weekStartsOn)

\* the comparator of renderAgendaView:
\* (a, b) => new Date(a.startTime).getTime() - new Date(b.startTime).getTime()
\* None is NaN
startTimeOrder(a, b) ==
  LET aTime == DateOf(a.startTime)
      bTime == DateOf(b.startTime)
  IN  IF aTime = None \/ bTime = None THEN None ELSE Some(aTime[1] - bTime[1])

\* an insertion that puts x in front of the elements it ties with
InsertPoint_beforeTies(sorted, x) ==
  LET stay == {i \in 1..Len(sorted) :
                 LET c == startTimeOrder(sorted[i], x)
                 IN  c # None /\ c[1] < 0}
  IN  IF stay = {} THEN 0 ELSE CHOOSE i \in stay : \A j \in stay : j <= i

\* Array.prototype.sort, one insertion: x moves in front of the elements the
\* comparator orders after it (result > 0) and stays behind the last element
\* it does not, so elements that compare equal keep their order
InsertPoint(sorted, x) ==
  LET stay == {i \in 1..Len(sorted) :
                 LET c == startTimeOrder(sorted[i], x)
                 IN  ~ (c # None /\ c[1] > 0)}
  IN  IF stay = {} THEN 0 ELSE CHOOSE i \in stay : \A j \in stay : j <= i

\* Array.prototype.sort with the comparator startTimeOrder, run on array
RECURSIVE ArraySort(_)
ArraySort(array) ==
  IF Len(array) <= 1 THEN array
  ELSE LET front == ArraySort(SubSeq(array, 1, Len(array) - 1))
           x == array[Len(array)]
           k == InsertPoint(front, x)
       IN  SubSeq(front, 1, k) \o <<x>> \o SubSeq(front, k + 1, Len(front))

\* an agenda that sorts the memoised array itself
renderAgendaView_inPlace(filtered) ==
  [sortedAppointments |-> ArraySort(filtered),
   filteredAppointments |-> ArraySort(filtered)]

\* renderAgendaView with the array it was given as it is afterwards:
\* [...filteredAppointments].sort(...) sorts a copy, the memoised array stays
\* as the filter returned it
renderAgendaView(filtered) ==
  [sortedAppointments |-> ArraySort(filtered),
   filteredAppointments |-> filtered]

\* a render of the Calendar with the given props and state
\* the memoised array is the one the filter returned, as the agenda leaves
\* it; the agenda's list is the sort of that array
Render(apts, date, v, weekStartsOn) ==
  /\ filteredAppointments' =
       Bind(FilterAppointments(apts, date, v, weekStartsOn),
            LAMBDA filtered :
              IF v = "agenda"
              THEN renderAgendaView(filtered).filteredAppointments
              ELSE filtered)
  /\ sortedAppointments' =
       IF v = "agenda"
       THEN renderAgendaView(filteredAppointments').sortedAppointments
       ELSE <<>>
  /\ viewDates' = ViewDates(date, v, weekStartsOn)
  /\ dayAppointments' = DayCells(filteredAppointments', viewDates')

\* the reference date after Previous / Next
PreviousDate(date, v) ==
  CASE v = "month" -> setMonth(date, getMonth(date) - 1)
    [] v = "week" -> setDate(date, getDate(date) - 7)
    [] v = "day" -> setDate(date, getDate(date) - 1)
    [] OTHER -> date

NextDate(date, v) ==
  CASE v = "month" -> setMonth(date, getMonth(date) + 1)
    [] v = "week" -> setDate(date, getDate(date) + 7)
    [] v = "day" -> setDate(date, getDate(date) + 1)
    [] OTHER -> date

(* Inputs of the Calendar *)

\* the first day the reference date may take in the model
NavFirstDay == DaysFromCivil(2024, 1, 29)
NavLastDay == NavFirstDay + NavSpanDays
InNavRange(date) == DayOf(date) >= NavFirstDay /\ DayOf(date) <= NavLastDay

\* values of new Date()
Nows == {At(2024, 2, 15, 15, 0), At(2024, 1, 31, 0, 0)}

Apt(id, startTime, endTime) ==
  [id |-> id, startTime |-> startTime, endTime |-> endTime]

AppointmentPool ==
  { \* on the first of February, over before 15:00
    Apt("first", Iso(2024, 2, 1, 9, 0), Iso(2024, 2, 1, 10, 0)),
    \* on 30 January, a leading cell of February's grid
    Apt("leading", Iso(2024, 1, 30, 9, 0), Iso(2024, 1, 30, 10, 0)),
    \* three days long
    Apt("threeday", Iso(2024, 2, 10, 9, 0), Iso(2024, 2, 12, 10, 0)),
    \* from the last day of February at 15:00 into March
    Apt("last", Iso(2024, 2, 29, 15, 0), Iso(2024, 3, 2, 10, 0)),
    \* a start time on 30 February
    Apt("badstart", Iso(2024, 2, 30, 9, 0), Iso(2024, 3, 1, 10, 0)),
    \* an end time that is no timestamp
    Apt("badend", Iso(2024, 2, 5, 9, 0), Garbage) }

\* lists of distinct appointments of the pool, at most MaxAppts long
ListsUpTo(n) == UNION {[1..k -> AppointmentPool] : k \in 0..n}
AppointmentLists ==
  {l \in ListsUpTo(MaxAppts) :
     \A i, j \in 1..Len(l) : i # j => l[i].id # l[j].id}

\* appointments that overlap each other for weeks, two with the same start
AgendaPool ==
  { Apt("quarter", Iso(2024, 1, 2, 9, 0), Iso(2024, 3, 29, 17, 0)),
    Apt("audit", Iso(2024, 1, 2, 9, 0), Iso(2024, 3, 15, 17, 0)),
    Apt("retreat", Iso(2024, 1, 20, 8, 0), Iso(2024, 2, 20, 12, 0)),
    Apt("sprint", Iso(2024, 2, 12, 9, 0), Iso(2024, 2, 16, 17, 0)) }

\* lists of distinct appointments of the agenda pool
AgendaLists ==
  {l \in UNION {[1..k -> AgendaPool] : k \in 0..MaxAgendaAppts} :
     \A i, j \in 1..Len(l) : i # j => l[i].id # l[j].id}

\* config.startOfWeek of the Calendar showing the agenda pool
AgendaWeekStarts == {1}

(* Actions of the Calendar *)

handlePrevious ==
  /\ InNavRange(PreviousDate(currentDate, view))
  /\ currentDate' = PreviousDate(currentDate, view)
  /\ Render(appointments, currentDate', view, startOfWeekDay)
  /\ lastClick' = None
  /\ UNCHANGED <<appointments, view, startOfWeekDay, selectedDate,
                 selectedAppointment, apiVars, formVars, hostVars, slotVars>>

handleNext ==
  /\ InNavRange(NextDate(currentDate, view))
  /\ currentDate' = NextDate(currentDate, view)
  /\ Render(appointments, currentDate', view, startOfWeekDay)
  /\ lastClick' = None
  /\ UNCHANGED <<appointments, view, startOfWeekDay, selectedDate,
                 selectedAppointment, apiVars, formVars, hostVars, slotVars>>

handleToday ==
  /\ \E now \in Nows : currentDate' = now
  /\ Render(appointments, currentDate', view, startOfWeekDay)
  /\ lastClick' = None
  /\ UNCHANGED <<appointments, view, startOfWeekDay, selectedDate,
                 selectedAppointment, apiVars, formVars, hostVars, slotVars>>

\* the host renders the Calendar with another config.view
SetView ==
  /\ \E v \in CalendarView : v # view /\ view' = v
  /\ Render(appointments, currentDate, view', startOfWeekDay)
  /\ lastClick' = None
  /\ UNCHANGED <<appointments, startOfWeekDay, currentDate, selectedDate,
                 selectedAppointment, apiVars, formVars, hostVars, slotVars>>

(* Clicks.  eventHandlers is taken to carry both onDateClick and
   onAppointmentClick, so every call of a handler is a call of the callback *)

\* what the onClick of an element does: the calls of handleDateClick and of
\* handleAppointmentClick it makes, and whether it stops the event
CellOnClick(date) ==
  [dateClicks |-> <<date>>, appointmentClicks |-> <<>>,
   stopPropagation |-> FALSE]

\* an appointment of a cell that lets the event go on to the cell
CellAppointmentOnClick_bubbling(apt) ==
  [dateClicks |-> <<>>, appointmentClicks |-> <<apt>>,
   stopPropagation |-> FALSE]

\* an appointment inside a cell of renderMonthView or renderWeekView
CellAppointmentOnClick(apt) ==
  [dateClicks |-> <<>>, appointmentClicks |-> <<apt>>,
   stopPropagation |-> TRUE]

\* an appointment of renderDayView or renderAgendaView
ListAppointmentOnClick(apt) ==
  [dateClicks |-> <<>>, appointmentClicks |-> <<apt>>,
   stopPropagation |-> FALSE]

\* the bubbling of a click: the onClick handlers of the elements from the
\* target outwards run in turn until one has stopped the event
RECURSIVE Bubble(_)
Bubble(path) ==
  IF path = <<>> THEN [dateClicks |-> <<>>, appointmentClicks |-> <<>>]
  ELSE LET outer == IF path[1].stopPropagation THEN Bubble(<<>>)
                    ELSE Bubble(Tail(path))
       IN  [dateClicks |-> path[1].dateClicks \o outer.dateClicks,
            appointmentClicks |->
              path[1].appointmentClicks \o outer.appointmentClicks]

\* the state after the calls of handleDateClick (setSelectedDate, then
\* onDateClick) and handleAppointmentClick (setSelectedAppointment, then
\* onAppointmentClick) of one click
Clicked(calls, cell, target) ==
  /\ selectedDate' =
       IF calls.dateClicks = <<>> THEN selectedDate
       ELSE Some(calls.dateClicks[Len(calls.dateClicks)])
  /\ selectedAppointment' =
       IF calls.appointmentClicks = <<>> THEN selectedAppointment
       ELSE Some(calls.appointmentClicks[Len(calls.appointmentClicks)])
  /\ lastClick' = Some([cell |-> cell, appointment |-> target,
                        onDateClick |-> calls.dateClicks,
                        onAppointmentClick |-> calls.appointmentClicks])
  /\ UNCHANGED <<appointments, view, startOfWeekDay, currentDate,
                 filteredAppointments, viewDates, dayAppointments,
                 sortedAppointments, apiVars, formVars, hostVars, slotVars>>

\* how many appointments of a cell are rendered: the first three in the month
\* view (dayAppointments.slice(0, 3)), all of them in the week view
ShownInCell(i) ==
  IF view = "month" THEN 1..3 \cap 1..Len(dayAppointments[i])
  ELSE 1..Len(dayAppointments[i])

\* a click on the day cell showing viewDates[i], outside its appointments
\* (month and week views)
handleDateClick ==
  /\ view \in {"month", "week"}
  /\ \E i \in 1..Len(viewDates) :
       Clicked(Bubble(<<CellOnClick(viewDates[i])>>), Some(viewDates[i]), None)

\* the appointments a view renders with a click handler: the first three of
\* a month cell, all of a week cell or of the day, the agenda's list entries
\* with parseable timestamps
ClickableAppointments ==
  CASE view \in {"month", "week"} ->
         UNION {{dayAppointments[i][k] : k \in ShownInCell(i)} :
                  i \in 1..Len(dayAppointments)}
    [] view = "day" ->
         UNION {{dayAppointments[i][k] : k \in 1..Len(dayAppointments[i])} :
                  i \in 1..Len(dayAppointments)}
    [] OTHER ->
         {sortedAppointments[k] : k \in 1..Len(sortedAppointments)}

\* a click on an appointment: inside the cell of viewDates[i] in the month and
\* week views, in the list of the day and agenda views
handleAppointmentClick ==
  \/ /\ view \in {"month", "week"}
     /\ \E i \in 1..Len(viewDates) : \E k \in ShownInCell(i) :
          Clicked(Bubble(<<CellAppointmentOnClick(dayAppointments[i][k]),
                           CellOnClick(viewDates[i])>>),
                  Some(viewDates[i]), Some(dayAppointments[i][k]))
  \/ /\ view \in {"day", "agenda"}
     /\ \E apt \in ClickableAppointments :
          Clicked(Bubble(<<ListAppointmentOnClick(apt)>>), None, Some(apt))

-----------------------------------------------------------------------------
(* Strings with a rule: sequences of one-character strings *)

Digits == {"0", "1", "2", "3", "4", "5", "6", "7", "8", "9"}
IsSpace(c) == c = " "

\* String.prototype.trim
Trim(str) ==
  LET inked == {i \in 1..Len(str) : ~IsSpace(str[i])}
  IN  IF inked = {} THEN <<>>
      ELSE SubSeq(str, CHOOSE i \in inked : \A j \in inked : i <= j,
                       CHOOSE i \in inked : \A j \in inked : i >= j)

\* /^[^\s@]+@[^\s@]+\.[^\s@]+$/.test(str)
EmailPattern(str) ==
  \E i \in 2..Len(str) : \E j \in (i + 2)..(Len(str) - 1) :
    /\ str[i] = "@" /\ str[j] = "."
    /\ \A k \in 1..Len(str) : k # i => ~IsSpace(str[k]) /\ str[k] # "@"

\* str.replace(/[\s\-\(\)]/g, '')
StripPhoneSeparators(str) ==
  LET Kept(c) == ~IsSpace(c) /\ c \notin {"-", "(", ")"}
  IN  SelectSeq(str, Kept)

\* /^[\+]?[1-9][\d]{0,15}$/.test(str)
PhonePattern(str) ==
  LET digits == IF str # <<>> /\ str[1] = "+" THEN Tail(str) ELSE str
  IN  /\ Len(digits) \in 1..16
      /\ digits[1] \in Digits \ {"0"}
      /\ \A k \in 2..Len(digits) : digits[k] \in Digits

\* Number(str) of a text of digits
RECURSIVE NumberOf(_)
NumberOf(str) ==
  IF str = <<>> THEN 0
  ELSE 10 * NumberOf(SubSeq(str, 1, Len(str) - 1))
       + (CHOOSE n \in 0..9 : ToString(n) = str[Len(str)])

\* 'HH:mm'.split(':').map(Number)
SplitHoursMinutes(str) ==
  LET colon == CHOOSE i \in 1..Len(str) : str[i] = ":"
  IN  <<NumberOf(SubSeq(str, 1, colon - 1)),
        NumberOf(SubSeq(str, colon + 1, Len(str)))>>

-----------------------------------------------------------------------------
(* components/AppointmentForm.tsx *)

\* a || b on strings: the empty string is falsy
OrElse(a, b) == IF a = "" THEN b ELSE a

\* statusOptions[0]?.value || fallback
FirstValueOr(options, fallback) ==
  IF Len(options) > 0 THEN OrElse(options[1].value, fallback) ELSE fallback

\* a status gate that forgets the allowStatusChange prop
CanModifyAppointmentStatus_ignoresAllow(props) ==
  canModifyStatus(props.currentUserRole, props.moderationEnabled)

\* the canModifyAppointmentStatus of a render; allowStatusChange defaults
\* to true
CanModifyAppointmentStatus(props) ==
  /\ canModifyStatus(props.currentUserRole, props.moderationEnabled)
  /\ (IF props.allowStatusChange = None THEN TRUE ELSE props.allowStatusChange[1])

\* the initial value of the formData state.  description stands for the
\* free-text fields no rule reads (patientName, location, notes, ...)
InitialFormData(props) ==
  [title |-> <<>>, description |-> <<>>,
   startTime |-> EmptyString, endTime |-> EmptyString,
   status |-> FirstValueOr(getConfigurableOptions(props.enumConfig, "statuses"),
                           "scheduled"),
   priority |-> FirstValueOr(getConfigurableOptions(props.enumConfig, "priorities"),
                             "routine"),
   type |-> FirstValueOr(getConfigurableOptions(props.enumConfig, "types"),
                         "consultation"),
   patientEmail |-> <<>>, patientPhone |-> <<>>,
   isOnlineAppointment |-> FALSE, meetingLink |-> <<>>]

\* the effect "Initialize form data" run with the previous state prev; now
\* is the new Date() a render takes as defaultDate when the prop is omitted
InitializeEffect(props, prev, now) ==
  IF props.appointment # None
  THEN LET appointment == props.appointment[1]
       IN  [title |-> appointment.title,
            description |-> appointment.description,
            startTime |-> appointment.startTime,
            endTime |-> appointment.endTime,
            status |-> appointment.status,
            priority |-> appointment.priority,
            type |-> appointment.type,
            patientEmail |-> appointment.patientEmail,
            patientPhone |-> appointment.patientPhone,
            isOnlineAppointment |-> appointment.isOnlineAppointment,
            meetingLink |-> appointment.meetingLink]
  ELSE LET defaultDate == IF props.defaultDate = None THEN now
                          ELSE props.defaultDate[1]
           start == SplitHoursMinutes(props.defaultStartTime)
           end   == SplitHoursMinutes(props.defaultEndTime)
           startDateTime == setHours(defaultDate, start[1], start[2])
           endDateTime   == setHours(defaultDate, end[1], end[2])
       IN  [prev EXCEPT !.startTime = toISOString(startDateTime),
                        !.endTime = toISOString(endDateTime)]

\* values of new Date() while a form is open
FormNows == {At(2024, 2, 10, 23, 50), At(2024, 2, 11, 0, 10)}

\* the form data once the renders that follow a state update have settled.
\* The effect depends on defaultDate: an omitted (or inline) defaultDate is a
\* new Date object in every render, so the effect runs again after each one;
\* a defaultDate the host keeps is the same object and the effect does not
\* run again.
Settled(props, data) ==
  IF props.defaultDate = None
  THEN {InitializeEffect(props, data, now) : now \in FormNows}
  ELSE {data}

MapSet(map, key, value) ==
  [k \in DOMAIN map \cup {key} |-> IF k = key THEN value ELSE map[k]]
MapTruthy(map, key) == key \in DOMAIN map /\ map[key] # ""

\* errors after "Clear error when user starts typing"
ClearError(errs, field) ==
  IF MapTruthy(errs, field) THEN MapSet(errs, field, "") ELSE errs

\* a validation without the rule on the order of the two times
ValidationErrors_noOrder(data) ==
  LET e1 == IF Trim(data.title) = <<>>
            THEN MapSet(<<>>, "title", "Title is required") ELSE <<>>
      e2 == IF data.startTime.kind = "empty"
            THEN MapSet(e1, "startTime", "Start time is required") ELSE e1
      e3 == IF data.endTime.kind = "empty"
            THEN MapSet(e2, "endTime", "End time is required") ELSE e2
      e5 == IF data.patientEmail # <<>> /\ ~EmailPattern(data.patientEmail)
            THEN MapSet(e3, "patientEmail", "Please enter a valid email address")
            ELSE e3
      e6 == IF /\ data.patientPhone # <<>>
               /\ ~PhonePattern(StripPhoneSeparators(data.patientPhone))
            THEN MapSet(e5, "patientPhone", "Please enter a valid phone number")
            ELSE e5
  IN  IF data.isOnlineAppointment /\ data.meetingLink = <<>>
      THEN MapSet(e6, "meetingLink",
                  "Meeting link is required for online appointments")
      ELSE e6

\* a validation that does not look at the email and the phone number
ValidationErrors_anyContact(data) ==
  LET e1 == IF Trim(data.title) = <<>>
            THEN MapSet(<<>>, "title", "Title is required") ELSE <<>>
      e2 == IF data.startTime.kind = "empty"
            THEN MapSet(e1, "startTime", "Start time is required") ELSE e1
      e3 == IF data.endTime.kind = "empty"
            THEN MapSet(e2, "endTime", "End time is required") ELSE e2
      startDate == DateOf(data.startTime)
      endDate   == DateOf(data.endTime)
      e4 == IF /\ data.startTime.kind # "empty" /\ data.endTime.kind # "empty"
               /\ startDate # None /\ endDate # None
               /\ endDate[1] <= startDate[1]
            THEN MapSet(e3, "endTime", "End time must be after start time")
            ELSE e3
  IN  IF data.isOnlineAppointment /\ data.meetingLink = <<>>
      THEN MapSet(e4, "meetingLink",
                  "Meeting link is required for online appointments")
      ELSE e4

\* the newErrors of validateForm
ValidationErrors(data) ==
  LET e1 == IF Trim(data.title) = <<>>
            THEN MapSet(<<>>, "title", "Title is required") ELSE <<>>
      e2 == IF data.startTime.kind = "empty"
            THEN MapSet(e1, "startTime", "Start time is required") ELSE e1
      e3 == IF data.endTime.kind = "empty"
            THEN MapSet(e2, "endTime", "End time is required") ELSE e2
      startDate == DateOf(data.startTime)
      endDate   == DateOf(data.endTime)
      e4 == IF /\ data.startTime.kind # "empty" /\ data.endTime.kind # "empty"
               /\ startDate # None /\ endDate # None
               /\ endDate[1] <= startDate[1]
            THEN MapSet(e3, "endTime", "End time must be after start time")
            ELSE e3
      e5 == IF data.patientEmail # <<>> /\ ~EmailPattern(data.patientEmail)
            THEN MapSet(e4, "patientEmail", "Please enter a valid email address")
            ELSE e4
      e6 == IF /\ data.patientPhone # <<>>
               /\ ~PhonePattern(StripPhoneSeparators(data.patientPhone))
            THEN MapSet(e5, "patientPhone", "Please enter a valid phone number")
            ELSE e5
  IN  IF data.isOnlineAppointment /\ data.meetingLink = <<>>
      THEN MapSet(e6, "meetingLink",
                  "Meeting link is required for online appointments")
      ELSE e6

\* option.disabled of an <option>
OptionDisabled(option) == "disabled" \in DOMAIN option /\ option.disabled

\* the values a user can pick in a <select> showing options
Selectable(options) ==
  {options[i].value : i \in {j \in 1..Len(options) :
                               j <= MaxOptionPick /\ ~OptionDisabled(options[j])}}

timePresets ==
  { [label |-> "1 hour", hours |-> 1, minutes |-> 0],
    [label |-> "2 hours", hours |-> 2, minutes |-> 0],
    [label |-> "30 minutes", hours |-> 0, minutes |-> 30],
    [label |-> "1.5 hours", hours |-> 1, minutes |-> 30] }

addMinutes(t, n) == t + n

\* what a user types or picks
TitleInputs == {<<>>, <<" ">>, <<"A">>}
DescriptionInputs == {<<"n">>}
EmailInputs == {<<"a", "@", "b", ".", "c">>, <<"a", "@", "b">>}
PhoneInputs == {<<"+", "1", " ", "(", "5", ")", "-", "5">>, <<"0", "5">>}
MeetingLinkInputs == {<<"u">>}
\* values of a datetime-local input; '' when the user clears it
DateTimeInputs == {Iso(2024, 2, 10, 8, 0), Iso(2024, 2, 10, 12, 0), EmptyString}

\* the fields an input of the form hands to handleInputChange, with the
\* values the input can produce in the current render
InputValues(props, data, field) ==
  CASE field = "title" -> TitleInputs
    [] field = "description" -> DescriptionInputs
    [] field = "status" ->
         IF CanModifyAppointmentStatus(props)
         THEN Selectable(getConfigurableOptions(props.enumConfig, "statuses"))
         ELSE {}
    [] field = "priority" ->
         Selectable(getConfigurableOptions(props.enumConfig, "priorities"))
    [] field = "type" ->
         Selectable(getConfigurableOptions(props.enumConfig, "types"))
    [] field = "patientEmail" -> EmailInputs
    [] field = "patientPhone" -> PhoneInputs
    [] field = "isOnlineAppointment" -> {~data.isOnlineAppointment}
    [] field = "meetingLink" ->
         IF data.isOnlineAppointment THEN MeetingLinkInputs ELSE {}
InputFields ==
  {"title", "description", "status", "priority", "type", "patientEmail",
   "patientPhone", "isOnlineAppointment", "meetingLink"}

FormBookkeeping ==
  UNCHANGED <<apiVars, calVars, hostVars, slotVars, formProps,
              initialStatus>>

handleInputChange ==
  /\ ~formProps.loading
  /\ interactions < MaxInteractions
  /\ \E field \in InputFields :
       \E value \in InputValues(formProps, formData, field) :
         /\ formData' \in Settled(formProps, [formData EXCEPT ![field] = value])
         /\ errors' = ClearError(errors, field)
  /\ interactions' = interactions + 1
  /\ lastInput' = None
  /\ UNCHANGED <<submitted, submits>>
  /\ FormBookkeeping

handleDateTimeChange ==
  /\ ~formProps.loading
  /\ interactions < MaxInteractions
  /\ \E field \in {"startTime", "endTime"} : \E value \in DateTimeInputs :
       LET date == DateOf(value)
       IN  /\ lastInput' = Some([field |-> field, value |-> value])
           /\ IF date = None
              THEN UNCHANGED <<formData, errors>>
              ELSE LET set == [formData EXCEPT ![field] = toISOString(date[1])]
                       endDate == DateOf(formData.endTime)
                       adjusted ==
                         IF /\ field = "startTime" /\ endDate # None
                            /\ endDate[1] <= date[1]
                         THEN [set EXCEPT !.endTime =
                                            toISOString(addHours(date[1], 1))]
                         ELSE set
                   IN  /\ formData' \in Settled(formProps, adjusted)
                       /\ errors' = ClearError(errors, field)
  /\ interactions' = interactions + 1
  /\ UNCHANGED <<submitted, submits>>
  /\ FormBookkeeping

\* with an Invalid Date as start, toISOString throws and no state is set
applyTimePreset ==
  /\ ~formProps.loading
  /\ interactions < MaxInteractions
  /\ DateOf(formData.startTime) # None
  /\ \E preset \in timePresets :
       LET startDate == DateOf(formData.startTime)[1]
           withHours == IF preset.hours # 0
                        THEN addHours(startDate, preset.hours) ELSE startDate
           endDate == IF preset.minutes # 0
                      THEN addMinutes(withHours, preset.minutes) ELSE withHours
       IN  formData' \in Settled(formProps,
                                 [formData EXCEPT !.endTime = toISOString(endDate)])
  /\ interactions' = interactions + 1
  /\ lastInput' = None
  /\ UNCHANGED <<errors, submitted, submits>>
  /\ FormBookkeeping

\* the submit button is disabled while loading
handleSubmit ==
  /\ ~formProps.loading
  /\ submits < MaxSubmits
  /\ LET newErrors == ValidationErrors(formData)
     IN  /\ errors' = newErrors
         /\ submitted' = IF DOMAIN newErrors = {}
                         THEN Append(submitted, formData) ELSE submitted
  /\ formData' \in Settled(formProps, formData)
  /\ submits' = submits + 1
  /\ lastInput' = None
  /\ UNCHANGED interactions
  /\ FormBookkeeping

\* the host renders again; a form without a kept defaultDate runs its effect
HostRender ==
  /\ formProps.defaultDate = None
  /\ formData' \in Settled(formProps, formData)
  /\ formData' # formData
  /\ lastInput' = None
  /\ UNCHANGED <<errors, submitted, interactions, submits>>
  /\ FormBookkeeping

\* the appointment a form edits
EditedAppointment ==
  [title |-> <<"V">>, description |-> <<>>,
   startTime |-> Iso(2024, 2, 12, 9, 0), endTime |-> Iso(2024, 2, 12, 10, 0),
   status |-> "confirmed", priority |-> "urgent", type |-> "telemedicine",
   patientEmail |-> <<>>, patientPhone |-> <<>>,
   isOnlineAppointment |-> FALSE, meetingLink |-> <<>>]

FormEnumConfigs ==
  { None,
    Some([statuses |-> ReorderedStatuses, priorities |-> UrgentFirstPriorities,
          types |-> TelemedicineOnly]),
    Some([statuses |-> DatabaseStatuses, priorities |-> <<>>,
          types |-> DatabaseTypes]) }

\* the props of a form; they stay as they are while the form is open
FormProps ==
  [appointment : {None, Some(EditedAppointment)},
   enumConfig : FormEnumConfigs,
   moderationEnabled : OptionalFlags,
   currentUserRole : OptionalRoles,
   allowStatusChange : OptionalFlags,
   loading : BOOLEAN,
   defaultDate : {None, Some(At(2024, 2, 10, 14, 30))},
   defaultStartTime : {<<"0", "9", ":", "0", "0">>},
   defaultEndTime : {<<"1", "0", ":", "0", "0">>}]

\* the form after its first render and the effect that follows it
FormMounted ==
  /\ formProps \in FormProps
  /\ \E now \in FormNows :
       formData = InitializeEffect(formProps, InitialFormData(formProps), now)
  /\ errors = <<>>
  /\ submitted = <<>>
  /\ initialStatus = formData.status
  /\ interactions = 0 /\ submits = 0
  /\ lastInput = None

-----------------------------------------------------------------------------
(* configurable-example.tsx: ConfigurableCalendarExample *)

\* the user id the example writes into createdBy and moderatedBy
CurrentUserId == "current-user-id"

\* an update that leaves the moderation fields as they were
updatedAppointment_untracked(selected, data, now) ==
  [id |-> selected.id, title |-> data.title, status |-> data.status,
   updatedAt |-> Some(toISOString(now)),
   isModerated |-> selected.isModerated,
   moderatedBy |-> selected.moderatedBy,
   moderatedAt |-> selected.moderatedAt]

\* the updatedAppointment of handleAppointmentSubmit: {...selectedAppointment,
\* ...data, updatedAt, isModerated, moderatedBy, moderatedAt}; now is the
\* value of new Date()
updatedAppointment(selected, data, now) ==
  [id |-> selected.id, title |-> data.title, status |-> data.status,
   updatedAt |-> Some(toISOString(now)),
   isModerated |-> IF data.status # selected.status
                   THEN Some(TRUE) ELSE selected.isModerated,
   moderatedBy |-> IF data.status # selected.status
                   THEN Some(CurrentUserId) ELSE selected.moderatedBy,
   moderatedAt |-> IF data.status # selected.status
                   THEN Some(toISOString(now)) ELSE selected.moderatedAt]

\* the newAppointment of handleAppointmentSubmit; n stands for Date.now() in
\* the id `apt-${Date.now()}`, which differs between two creations because
\* each one follows a wait of a second
newAppointment(data, now, n) ==
  [id |-> <<"apt", n>>, title |-> data.title, status |-> data.status,
   updatedAt |-> Some(toISOString(now)),
   isModerated |-> Some(FALSE),
   moderatedBy |-> None,
   moderatedAt |-> None]

\* prev.map(apt => apt.id === selectedAppointment.id ? updatedAppointment : apt)
ReplaceById(prev, id, updated) ==
  [k \in 1..Len(prev) |-> IF prev[k].id = id THEN updated ELSE prev[k]]

(* Inputs of the host *)

\* values of customEnumConfig.statuses a user picks; the first one is the
\* status of a new form
HostStatuses == {"scheduled", "confirmed"}
HostDefaultStatus == "scheduled"
HostTitles == {"Visit", "Review"}

\* stored appointments the example starts with: one never moderated, one
\* moderated earlier by somebody else.  An id is a text, written here as its
\* prefix and its number
HostStored ==
  << [id |-> <<"mock", 1>>, title |-> "Visit", status |-> "scheduled",
      updatedAt |-> None, isModerated |-> None, moderatedBy |-> None,
      moderatedAt |-> None],
     [id |-> <<"mock", 2>>, title |-> "Review", status |-> "confirmed",
      updatedAt |-> Some(Iso(2024, 2, 1, 9, 0)), isModerated |-> Some(TRUE),
      moderatedBy |-> Some("moderator-7"),
      moderatedAt |-> Some(Iso(2024, 2, 1, 9, 0))] >>
HostStores == {SubSeq(HostStored, 1, k) : k \in 0..2}

HostFirstNow == At(2024, 2, 15, 15, 0)

\* the props the example hands to the AppointmentForm that matter for the
\* status field
HostFormProps ==
  [currentUserRole |-> Some(hostUserRole), moderationEnabled |-> Some(TRUE),
   allowStatusChange |-> Some(TRUE)]

\* the data a form shown by the example can submit: the status field is
\* disabled unless the role may modify it
HostFormData ==
  LET shown == IF hostSelectedAppointment = None THEN HostDefaultStatus
               ELSE hostSelectedAppointment[1].status
  IN  [title : HostTitles,
       status : IF CanModifyAppointmentStatus(HostFormProps)
                THEN HostStatuses ELSE {shown}]

(* Actions of the host *)

\* Calendar onAppointmentClick: an appointment of the store is clicked
hostAppointmentClick ==
  /\ \E k \in 1..Len(hostAppointments) :
       hostSelectedAppointment' = Some(hostAppointments[k])
  /\ hostShowForm' = TRUE
  /\ UNCHANGED <<hostAppointments, hostLoading, hostUserRole, hostPending,
                 hostNow, hostCreated, hostSubmits, apiVars, calVars, formVars, slotVars>>

\* Calendar onDateClick and the Add Appointment button
hostDateClick ==
  /\ hostSelectedAppointment' = None
  /\ hostShowForm' = TRUE
  /\ ~(hostSelectedAppointment = None /\ hostShowForm)
  /\ UNCHANGED <<hostAppointments, hostLoading, hostUserRole, hostPending,
                 hostNow, hostCreated, hostSubmits, apiVars, calVars, formVars, slotVars>>

\* the onCancel handed to the form
hostCancel ==
  /\ hostShowForm
  /\ hostShowForm' = FALSE
  /\ hostSelectedAppointment' = None
  /\ UNCHANGED <<hostAppointments, hostLoading, hostUserRole, hostPending,
                 hostNow, hostCreated, hostSubmits, apiVars, calVars, formVars, slotVars>>

\* the role select
setCurrentUserRole ==
  /\ \E role \in UserRole : role # hostUserRole /\ hostUserRole' = role
  /\ UNCHANGED <<hostAppointments, hostSelectedAppointment, hostShowForm,
                 hostLoading, hostPending, hostNow, hostCreated, hostSubmits,
                 apiVars, calVars, formVars, slotVars>>

\* handleAppointmentSubmit up to its await: the form is shown and its submit
\* button is enabled; the call keeps the selectedAppointment of its render
handleAppointmentSubmit ==
  /\ hostShowForm /\ ~hostLoading
  /\ hostSubmits < MaxHostSubmits
  /\ hostSelectedAppointment = None => Len(hostAppointments) < MaxHostAppts
  /\ \E data \in HostFormData :
       hostPending' = Some([data |-> data,
                            selectedAppointment |-> hostSelectedAppointment])
  /\ hostLoading' = TRUE
  /\ hostSubmits' = hostSubmits + 1
  /\ UNCHANGED <<hostAppointments, hostSelectedAppointment, hostShowForm,
                 hostUserRole, hostNow, hostCreated, apiVars, calVars, formVars, slotVars>>

\* handleAppointmentSubmit after its await
handleAppointmentSubmitResumed ==
  /\ hostPending # None
  /\ \E now \in {hostNow, hostNow + 1} :
       /\ now <= HostFirstNow + MaxHostMinutes
       /\ hostNow' = now
       /\ LET data == hostPending[1].data
              selected == hostPending[1].selectedAppointment
          IN  IF selected # None
              THEN /\ hostAppointments' =
                        ReplaceById(hostAppointments, selected[1].id,
                                    updatedAppointment(selected[1], data, now))
                   /\ hostCreated' = hostCreated
              ELSE /\ hostAppointments' =
                        Append(hostAppointments,
                               newAppointment(data, now, hostCreated + 1))
                   /\ hostCreated' = hostCreated + 1
  /\ hostLoading' = FALSE
  /\ hostShowForm' = FALSE
  /\ hostSelectedAppointment' = None
  /\ hostPending' = None
  /\ UNCHANGED <<hostUserRole, hostSubmits, apiVars, calVars, formVars, slotVars>>

\* the example after its first render
HostMounted ==
  /\ hostAppointments \in HostStores
  /\ hostSelectedAppointment = None
  /\ hostShowForm = FALSE /\ hostLoading = FALSE
  /\ hostUserRole = "moderator"
  /\ hostPending = None
  /\ hostNow = HostFirstNow
  /\ hostCreated = 0 /\ hostSubmits = 0

-----------------------------------------------------------------------------
(* generateTimeSlots of dateUtils, one iteration of its loop a step *)

\* an 'HH:mm' text: the numbers on the two sides of its ':'
Hhmm(h, mi) == [h |-> h, mi |-> mi]
SlotTimes == {Hhmm(8, 59), Hhmm(9, 0), Hhmm(9, 1), Hhmm(9, 2)}
SlotIntervals == {-1, 0, 1, 2}

\* the % of JavaScript: the remainder has the sign of the dividend
Remainder(a, b) == IF a >= 0 THEN a % b ELSE 0 - ((0 - a) % b)

\* startHour * 60 + startMinute of startTime.split(':').map(Number)
MinutesOf(text) == text.h * 60 + text.mi

\* the numbers of the timeString pushed for a value of minutes
timeString(m) == Hhmm(m \div 60, Remainder(m, 60))

SlotsIdle ==
  slotsPc = "idle" /\ slotsArgs = None /\ minutes = 0 /\ slots = <<>>

\* a call: the locals are initialised and the loop is entered
generateTimeSlots ==
  /\ slotsPc \in {"idle", "returned"}
  /\ \E startTime \in SlotTimes, endTime \in SlotTimes,
        intervalMinutes \in SlotIntervals :
       /\ slotsArgs' = Some([startTime |-> startTime, endTime |-> endTime,
                             intervalMinutes |-> intervalMinutes])
       /\ minutes' = MinutesOf(startTime)
  /\ slots' = <<>>
  /\ slotsPc' = "loop"
  /\ UNCHANGED <<apiVars, calVars, formVars, hostVars>>

\* the loop condition holds: the body and minutes += intervalMinutes.  Of a
\* loop that goes on after MaxSlots iterations the model keeps the first
\* MaxSlots; it is still in the loop
generateTimeSlotsLoop ==
  /\ slotsPc = "loop"
  /\ minutes < MinutesOf(slotsArgs[1].endTime)
  /\ IF Len(slots) < MaxSlots
     THEN /\ slots' = Append(slots, timeString(minutes))
          /\ minutes' = minutes + slotsArgs[1].intervalMinutes
     ELSE UNCHANGED <<slots, minutes>>
  /\ UNCHANGED <<slotsPc, slotsArgs, apiVars, calVars, formVars, hostVars>>

\* the loop condition fails: return slots
generateTimeSlotsReturn ==
  /\ slotsPc = "loop"
  /\ ~(minutes < MinutesOf(slotsArgs[1].endTime))
  /\ slotsPc' = "returned"
  /\ UNCHANGED <<slotsArgs, minutes, slots, apiVars, calVars, formVars,
                 hostVars>>

-----------------------------------------------------------------------------
(* Initial states and specifications *)

HostIdle ==
  /\ hostAppointments = <<>> /\ hostSelectedAppointment = None
  /\ hostShowForm = FALSE /\ hostLoading = FALSE
  /\ hostUserRole = "moderator"
  /\ hostPending = None /\ hostNow = HostFirstNow /\ hostCreated = 0
  /\ hostSubmits = 0

ApiIdle == apiFn = "none" /\ apiArgs = None /\ apiRet = None

CalendarIdle ==
  /\ appointments = <<>> /\ view = "month" /\ startOfWeekDay = 1
  /\ currentDate = At(2024, 2, 15, 15, 0)
  /\ selectedDate = None /\ selectedAppointment = None
  /\ filteredAppointments = <<>> /\ viewDates = <<>> /\ dayAppointments = <<>>
  /\ sortedAppointments = <<>>
  /\ lastClick = None

FormIdle ==
  /\ formProps = None /\ formData = None /\ errors = None
  /\ submitted = <<>> /\ initialStatus = None
  /\ interactions = 0 /\ submits = 0 /\ lastInput = None

\* the Calendar after its first render: currentDate is new Date(), nothing
\* is selected
CalendarMounted ==
  /\ appointments \in AppointmentLists
  /\ view \in CalendarView
  /\ startOfWeekDay \in 0..6
  /\ currentDate \in Nows
  /\ selectedDate = None /\ selectedAppointment = None
  /\ filteredAppointments =
       FilterAppointments(appointments, currentDate, view, startOfWeekDay)
  /\ viewDates = ViewDates(currentDate, view, startOfWeekDay)
  /\ dayAppointments = DayCells(filteredAppointments, viewDates)
  /\ sortedAppointments =
       IF view = "agenda"
       THEN renderAgendaView(filteredAppointments).sortedAppointments
       ELSE <<>>
  /\ lastClick = None

\* the host calls the exported helpers
InitApi == ApiIdle /\ CalendarIdle /\ FormIdle /\ HostIdle /\ SlotsIdle
NextApi ==
  \/ CallCanModifyStatus \/ CallGetConfigurableOptions \/ CallParseISODate
  \/ CallGetMonthDates \/ CallGetWeekDates
SpecApi == InitApi /\ [][NextApi]_vars

\* the Calendar under navigation and view changes
InitCalendar == ApiIdle /\ CalendarMounted /\ FormIdle /\ HostIdle /\ SlotsIdle
NextCalendar == handlePrevious \/ handleNext \/ handleToday \/ SetView
SpecCalendar == InitCalendar /\ [][NextCalendar]_vars

\* the Calendar over appointments that overlap each other
AgendaMounted ==
  /\ appointments \in AgendaLists
  /\ view \in CalendarView
  /\ startOfWeekDay \in AgendaWeekStarts
  /\ currentDate \in Nows
  /\ selectedDate = None /\ selectedAppointment = None
  /\ filteredAppointments =
       FilterAppointments(appointments, currentDate, view, startOfWeekDay)
  /\ viewDates = ViewDates(currentDate, view, startOfWeekDay)
  /\ dayAppointments = DayCells(filteredAppointments, viewDates)
  /\ sortedAppointments =
       IF view = "agenda"
       THEN renderAgendaView(filteredAppointments).sortedAppointments
       ELSE <<>>
  /\ lastClick = None

InitAgenda == ApiIdle /\ AgendaMounted /\ FormIdle /\ HostIdle /\ SlotsIdle
SpecAgenda == InitAgenda /\ [][NextCalendar]_vars

\* the Calendar mounted on 11 February 2024, in the middle of the three-day
\* appointment, under clicks and view changes
ClicksMounted ==
  /\ appointments \in AppointmentLists
  /\ view \in CalendarView
  /\ startOfWeekDay = 1
  /\ currentDate = At(2024, 2, 11, 15, 0)
  /\ selectedDate = None /\ selectedAppointment = None
  /\ filteredAppointments =
       FilterAppointments(appointments, currentDate, view, startOfWeekDay)
  /\ viewDates = ViewDates(currentDate, view, startOfWeekDay)
  /\ dayAppointments = DayCells(filteredAppointments, viewDates)
  /\ sortedAppointments =
       IF view = "agenda"
       THEN renderAgendaView(filteredAppointments).sortedAppointments
       ELSE <<>>
  /\ lastClick = None

InitClicks == ApiIdle /\ ClicksMounted /\ FormIdle /\ HostIdle /\ SlotsIdle
NextClicks == handleDateClick \/ handleAppointmentClick \/ SetView
SpecClicks == InitClicks /\ [][NextClicks]_vars

\* an AppointmentForm under input events and submits
InitForm == ApiIdle /\ CalendarIdle /\ FormMounted /\ HostIdle /\ SlotsIdle
NextForm ==
  \/ handleInputChange \/ handleDateTimeChange \/ applyTimePreset
  \/ handleSubmit \/ HostRender
SpecForm == InitForm /\ [][NextForm]_vars

\* the example host under clicks, role changes and submits
InitHost == ApiIdle /\ CalendarIdle /\ FormIdle /\ HostMounted /\ SlotsIdle
NextHost ==
  \/ hostAppointmentClick \/ hostDateClick \/ hostCancel
  \/ setCurrentUserRole
  \/ handleAppointmentSubmit \/ handleAppointmentSubmitResumed
SpecHost == InitHost /\ [][NextHost]_vars

\* calls of generateTimeSlots; a call that is running goes on running
InitSlots == ApiIdle /\ CalendarIdle /\ FormIdle /\ HostIdle /\ SlotsIdle
NextSlots ==
  generateTimeSlots \/ generateTimeSlotsLoop \/ generateTimeSlotsReturn
SpecSlots ==
  /\ InitSlots /\ [][NextSlots]_vars
  /\ WF_vars(generateTimeSlotsLoop) /\ WF_vars(generateTimeSlotsReturn)

-----------------------------------------------------------------------------
(* Vocabulary of the properties *)

\* the k-th smallest element of a set of indices
KthIndex(idx, k) == CHOOSE i \in idx : Cardinality({j \in idx : j < i}) = k - 1

\* the entries of seq at the indices idx, in the order of seq
SubsequenceAt(seq, idx) ==
  [k \in 1..Cardinality(idx) |-> seq[KthIndex(idx, k)]]

\* a timestamp text that denotes an instant, and that instant
WellFormed(text) == text.kind = "iso" /\ IsoFieldsValid(text)
InstantOf(text) == At(text.y, text.mo, text.d, text.h, text.mi)
Parseable(apt) == WellFormed(apt.startTime) /\ WellFormed(apt.endTime)

\* the appointment occupies the calendar day of date: start day <= day <= end day
TouchesDay(apt, date) ==
  /\ Parseable(apt)
  /\ DayOf(InstantOf(apt.startTime)) <= DayOf(date)
  /\ DayOf(date) <= DayOf(InstantOf(apt.endTime))

Elements(seq) == {seq[k] : k \in 1..Len(seq)}

-----------------------------------------------------------------------------
(* Properties of the exported helpers *)

\* C1: with moderation enabled canModifyStatus(role, true) is true exactly
\* for the moderator and administrator roles, and false for patient, doctor
\* and undefined.
C1_GateEnabled ==
  (apiFn = "canModifyStatus" /\ apiArgs.moderationEnabled = Some(TRUE)) =>
    /\ apiRet \in BOOLEAN
    /\ apiRet <=> apiArgs.userRole \in {Some("moderator"), Some("admin")}
    /\ apiArgs.userRole \in {None, Some("patient"), Some("doctor")} => ~apiRet

\* the gate refuses a doctor
C1_Witness ==
  /\ apiFn = "canModifyStatus" /\ apiArgs.moderationEnabled = Some(TRUE)
  /\ apiArgs.userRole = Some("doctor") /\ apiRet = FALSE

\* C2: with moderation disabled (flag false or omitted) canModifyStatus is
\* true for every role, undefined included.
C2_GateDisabled ==
  (apiFn = "canModifyStatus"
     /\ apiArgs.moderationEnabled \in {None, Some(FALSE)}) =>
    apiRet = TRUE

\* the flag is omitted, the role undefined
C2_Witness ==
  /\ apiFn = "canModifyStatus" /\ apiArgs.moderationEnabled = None
  /\ apiArgs.userRole = None /\ apiRet = TRUE

\* C4: without a configuration the resolver returns the built-in list of the
\* field, and with a non-empty custom list exactly that list, for each of the
\* three fields.
C4_ResolverVerbatim ==
  apiFn = "getConfigurableOptions" =>
    /\ apiArgs.config = None => apiRet = defaultEnumConfig[apiArgs.type]
    /\ (apiArgs.config # None /\ apiArgs.config[1][apiArgs.type] # <<>>) =>
         apiRet = apiArgs.config[1][apiArgs.type]

\* a custom status list that shares no value with the defaults comes back
C4_Witness ==
  /\ apiFn = "getConfigurableOptions" /\ apiArgs.type = "statuses"
  /\ apiArgs.config # None
  /\ apiArgs.config[1].statuses = DatabaseStatuses
  /\ OptionValues(DatabaseStatuses) \cap
       OptionValues(defaultEnumConfig.statuses) = {}
  /\ apiRet = DatabaseStatuses

\* C5: with a configuration whose list for the field is empty the resolver
\* returns the built-in list of the field.
C5_EmptyListFallsBack ==
  (apiFn = "getConfigurableOptions" /\ apiArgs.config # None
     /\ apiArgs.config[1][apiArgs.type] = <<>>) =>
    apiRet = defaultEnumConfig[apiArgs.type]

-----------------------------------------------------------------------------
(* Properties of the Calendar *)

\* C6: the window filter keeps, in input order, exactly the appointments with
\* parseable timestamps whose startTime <= window end and endTime >= window
\* start, the window being the startDate and endDate the memo computes.
C6_WindowFilterExact ==
  LET w == ViewWindow(currentDate, view, startOfWeekDay)
      kept == {i \in 1..Len(appointments) :
                 /\ Parseable(appointments[i])
                 /\ InstantOf(appointments[i].startTime) <= w.endDate
                 /\ InstantOf(appointments[i].endTime) >= w.startDate}
  IN  filteredAppointments = SubsequenceAt(appointments, kept)

\* an appointment that starts at the very instant the window ends is kept,
\* another one of the list is dropped
C6_Witness ==
  /\ view = "month" /\ Len(appointments) = 2 /\ Len(filteredAppointments) = 1
  /\ filteredAppointments[1] = appointments[2]
  /\ InstantOf(appointments[2].startTime) =
       ViewWindow(currentDate, view, startOfWeekDay).endDate

\* C7: an appointment with an unparseable startTime or endTime is in no
\* window filter result and in no day cell, parseISODate gives null for its
\* malformed text, and the results are those of the list without it.
C7_MalformedInvisible ==
  LET valid == SelectSeq(appointments, Parseable)
      refiltered == FilterAppointments(valid, currentDate, view, startOfWeekDay)
  IN  /\ \A apt \in Elements(appointments) :
           /\ ~WellFormed(apt.startTime) => parseISODate(apt.startTime) = None
           /\ ~WellFormed(apt.endTime) => parseISODate(apt.endTime) = None
      /\ \A apt \in Elements(filteredAppointments) : Parseable(apt)
      /\ \A i \in 1..Len(dayAppointments) :
           \A apt \in Elements(dayAppointments[i]) : Parseable(apt)
      /\ filteredAppointments = refiltered
      /\ dayAppointments = DayCells(refiltered, viewDates)

\* a malformed record precedes a valid one that the month view shows
C7_Witness ==
  /\ view = "month" /\ Len(appointments) = 2
  /\ ~Parseable(appointments[1])
  /\ filteredAppointments = <<appointments[2]>>
  /\ \E i \in 1..Len(dayAppointments) : dayAppointments[i] = <<appointments[2]>>

\* C8: the cell of a date holds exactly the filtered appointments whose
\* start day <= the date's day <= end day, in their order.
C8_BucketExact ==
  \A i \in 1..Len(viewDates) :
    dayAppointments[i] =
      SubsequenceAt(filteredAppointments,
                    {k \in 1..Len(filteredAppointments) :
                       TouchesDay(filteredAppointments[k], viewDates[i])})

\* the three-day appointment 10..12 February is in the cell of the 11th and
\* in neither the cell of the 9th nor that of the 13th
C8_Witness ==
  /\ view = "month"
  /\ \E i \in 2..(Len(viewDates) - 1) :
       /\ viewDates[i] = At(2024, 2, 11, 0, 0)
       /\ \E apt \in Elements(dayAppointments[i]) : apt.id = "threeday"
       /\ \E apt \in Elements(dayAppointments[i - 1]) : apt.id = "threeday"
       /\ \E apt \in Elements(dayAppointments[i + 1]) : apt.id = "threeday"
       /\ \A apt \in Elements(dayAppointments[i - 2]) : apt.id # "threeday"
       /\ \A apt \in Elements(dayAppointments[i + 2]) : apt.id # "threeday"

\* C9: in MONTH view the cell of every date of the displayed month holds
\* exactly the appointments of the original list that touch that date.
C9_MonthRoundTrip ==
  view = "month" =>
    \A i \in 1..Len(viewDates) :
      isSameMonth(viewDates[i], currentDate) =>
        dayAppointments[i] =
          SubsequenceAt(appointments,
                        {k \in 1..Len(appointments) :
                           TouchesDay(appointments[k], viewDates[i])})

\* C10: in MONTH view the filter window runs from the first to the last
\* displayed cell date, so that an appointment lying entirely on a leading or
\* trailing cell of an adjacent month is inside the window and in that cell.
C10_MonthWindowIsGrid ==
  view = "month" =>
    LET w == ViewWindow(currentDate, view, startOfWeekDay)
    IN  \A i \in 1..Len(viewDates) : \A apt \in Elements(appointments) :
          ( /\ ~isSameMonth(viewDates[i], currentDate)
            /\ Parseable(apt)
            /\ isSameDay(InstantOf(apt.startTime), viewDates[i])
            /\ isSameDay(InstantOf(apt.endTime), viewDates[i]) )
          => /\ DayOf(w.startDate) <= DayOf(viewDates[i])
             /\ DayOf(viewDates[i]) <= DayOf(w.endDate)
             /\ apt \in Elements(dayAppointments[i])

-----------------------------------------------------------------------------
(* Properties of the AppointmentForm *)

\* the status gate is closed: moderation is on and the role is neither
\* MODERATOR nor ADMIN, or allowStatusChange is false
GateClosed(props) ==
  \/ /\ props.moderationEnabled = Some(TRUE)
     /\ props.currentUserRole \notin {Some("moderator"), Some("admin")}
  \/ props.allowStatusChange = Some(FALSE)

\* C3: while the status gate is closed or allowStatusChange is false, no
\* sequence of input events changes the status of the form, and every call
\* of onSubmit carries the status the form was initialised with.
C3_StatusLocked ==
  GateClosed(formProps) =>
    /\ initialStatus = IF formProps.appointment # None
                       THEN formProps.appointment[1].status
                       ELSE InitialFormData(formProps).status
    /\ formData.status = initialStatus
    /\ \A i \in 1..Len(submitted) : submitted[i].status = initialStatus

\* a form whose gate is closed only by allowStatusChange has taken two input
\* events and handed its data to onSubmit
C3_Witness ==
  /\ GateClosed(formProps)
  /\ formProps.allowStatusChange = Some(FALSE)
  /\ formProps.currentUserRole = Some("admin")
  /\ interactions = MaxInteractions
  /\ Len(submitted) = 1
  /\ submitted[1].title = <<"A">>
  /\ submitted[1].priority # InitialFormData(formProps).priority

-----------------------------------------------------------------------------
(* Properties of the grid helpers *)

\* the day numbers of the first and the last day of the month of date
FirstDayOfMonth(date) == DaysFromCivil(getFullYear(date), getMonth(date) + 1, 1)
LastDayOfMonth(date) ==
  FirstDayOfMonth(date)
    + DaysInMonth(getFullYear(date), getMonth(date) + 1) - 1
\* the weekday (0 = Sunday) of a day number; 1970-01-01 was a Thursday
WeekdayOfDay(day) == (day + 4) % 7
ConsecutiveDays(dates) ==
  \A i \in 1..(Len(dates) - 1) : DayOf(dates[i + 1]) = DayOf(dates[i]) + 1

\* C11: getMonthDates returns the consecutive days from the week-start day of
\* the week holding the 1st of the month through the last day of the week
\* holding the month's last day: ascending, each day once, the first cell on
\* weekday startOfWeekDay, the count a multiple of 7.
C11_MonthGrid ==
  apiFn = "getMonthDates" =>
    LET dates == apiRet
        ws    == WeekStartOrDefault(apiArgs.startOfWeekDay)
        first == FirstDayOfMonth(apiArgs.date)
        last  == LastDayOfMonth(apiArgs.date)
    IN  /\ Len(dates) > 0 /\ Len(dates) % 7 = 0
        /\ ConsecutiveDays(dates)
        /\ WeekdayOfDay(DayOf(dates[1])) = ws
        /\ DayOf(dates[1]) <= first /\ first - DayOf(dates[1]) <= 6
        /\ DayOf(dates[Len(dates)]) >= last
        /\ DayOf(dates[Len(dates)]) - last <= 6

\* September 2024 with Monday weeks: the 1st is a Sunday, the grid runs from
\* 26 August to 6 October, six rows
C11_Witness ==
  /\ apiFn = "getMonthDates" /\ apiArgs.startOfWeekDay = Some(1)
  /\ apiArgs.date = At(2024, 9, 15, 15, 0)
  /\ Len(apiRet) = 42
  /\ apiRet[1] = At(2024, 8, 26, 0, 0) /\ apiRet[42] = At(2024, 10, 6, 0, 0)

\* C12: getWeekDates returns exactly 7 consecutive days; the first is the
\* latest day on or before the reference date whose weekday is
\* startOfWeekDay, and the reference date's day is one of the 7.
C12_WeekGrid ==
  apiFn = "getWeekDates" =>
    LET dates == apiRet
        ws    == WeekStartOrDefault(apiArgs.startOfWeekDay)
        ref   == DayOf(apiArgs.date)
    IN  /\ Len(dates) = 7
        /\ ConsecutiveDays(dates)
        /\ WeekdayOfDay(DayOf(dates[1])) = ws
        /\ DayOf(dates[1]) <= ref /\ ref - DayOf(dates[1]) <= 6
        /\ \E i \in 1..7 : DayOf(dates[i]) = ref

\* Sunday 1 September 2024 with Monday weeks: the week began on 26 August
C12_Witness ==
  /\ apiFn = "getWeekDates" /\ apiArgs.startOfWeekDay = Some(1)
  /\ apiArgs.date = At(2024, 9, 1, 0, 0)
  /\ apiRet[1] = At(2024, 8, 26, 0, 0) /\ apiRet[7] = At(2024, 9, 1, 0, 0)

-----------------------------------------------------------------------------
(* Properties of the views *)

\* C13: in WEEK view the filter window starts on the calendar day of the
\* first displayed cell and ends on the calendar day of the seventh, for
\* every reference date and every startOfWeek in 0..6.
C13_WeekWindowIsRow ==
  view = "week" =>
    LET w == ViewWindow(currentDate, view, startOfWeekDay)
    IN  /\ Len(viewDates) = 7
        /\ isSameDay(w.startDate, viewDates[1])
        /\ isSameDay(w.endDate, viewDates[7])

\* C14: in DAY view the single cell is the reference date and its list holds
\* every supplied appointment with parseable timestamps whose start day <=
\* the reference day <= end day, whatever the time of day of the reference
\* date.
C14_DayShowsAllOfDay ==
  view = "day" =>
    /\ viewDates = <<currentDate>>
    /\ dayAppointments[1] =
         SubsequenceAt(appointments,
                       {k \in 1..Len(appointments) :
                          TouchesDay(appointments[k], currentDate)})

\* C15: in AGENDA view the list shown consists of every supplied appointment
\* with parseable timestamps, whatever the reference date is.
C15_AgendaShowsAll ==
  view = "agenda" =>
    /\ Elements(sortedAppointments) =
         {apt \in Elements(appointments) : Parseable(apt)}
    /\ Len(sortedAppointments) =
         Cardinality({k \in 1..Len(appointments) : Parseable(appointments[k])})

\* the position of an appointment in a list that holds it once
PositionIn(seq, apt) == CHOOSE k \in 1..Len(seq) : seq[k] = apt

\* C16: the agenda list is a permutation of the list it sorts, ascending by
\* startTime, and appointments with equal start times keep the relative
\* order they had before the sort.
C16_AgendaSorted ==
  view = "agenda" =>
    /\ Len(sortedAppointments) = Len(filteredAppointments)
    /\ \A apt \in Elements(filteredAppointments) \cup Elements(sortedAppointments) :
         Cardinality({k \in 1..Len(sortedAppointments) :
                        sortedAppointments[k] = apt})
           = Cardinality({k \in 1..Len(filteredAppointments) :
                            filteredAppointments[k] = apt})
    /\ \A i, j \in 1..Len(sortedAppointments) :
         i < j =>
           /\ InstantOf(sortedAppointments[i].startTime)
                <= InstantOf(sortedAppointments[j].startTime)
           /\ InstantOf(sortedAppointments[i].startTime)
                = InstantOf(sortedAppointments[j].startTime)
              => PositionIn(filteredAppointments, sortedAppointments[i])
                   < PositionIn(filteredAppointments, sortedAppointments[j])

\* the agenda of [retreat, quarter, audit] at a time all three are in
\* progress: the two that start together come first, quarter before audit
C16_Witness ==
  /\ view = "agenda"
  /\ Len(filteredAppointments) = 3
  /\ filteredAppointments[1].id = "retreat"
  /\ filteredAppointments[2].id = "quarter"
  /\ filteredAppointments[3].id = "audit"
  /\ sortedAppointments[1].id = "quarter"
  /\ sortedAppointments[2].id = "audit"
  /\ sortedAppointments[3].id = "retreat"

\* the column of the 7-column grid in which the i-th cell lands
ColumnOf(i) == ((i - 1) % 7) + 1

\* C17: the weekday headers are Sun..Sat rotated to start at startOfWeek, and
\* in month and week view the header of a column names the weekday of every
\* cell date in that column.
C17_HeadersMatchCells ==
  LET headers == adjustedWeekDays(startOfWeekDay)
  IN  /\ Len(headers) = 7
      /\ \A i \in 1..7 : headers[i] = weekDays[((startOfWeekDay + i - 1) % 7) + 1]
      /\ view \in {"month", "week"} =>
           \A i \in 1..Len(viewDates) :
             headers[ColumnOf(i)] = weekDays[WeekdayOfDay(DayOf(viewDates[i])) + 1]

\* February 2024 with weeks starting on Wednesday: five rows from Wed 31
\* January, the first header is Wed and the last cell in the Tue column
C17_Witness ==
  /\ view = "month" /\ startOfWeekDay = 3
  /\ Len(viewDates) = 35
  /\ viewDates[1] = At(2024, 1, 31, 0, 0)
  /\ adjustedWeekDays(startOfWeekDay)[1] = "Wed"
  /\ adjustedWeekDays(startOfWeekDay)[7] = "Tue"
  /\ currentDate = At(2024, 2, 29, 15, 0)

\* C18: no step of the Calendar changes the caller's appointment array or a
\* record in it; the filtered list keeps the order of that array also after
\* the agenda was sorted (the sort works on a copy); and the stored reference
\* date is the one the handler stored, never a window bound.
C18_ReadOnly ==
  [][ /\ appointments' = appointments
      /\ filteredAppointments' =
           SubsequenceAt(appointments',
                         {k \in 1..Len(appointments') :
                            appointments'[k] \in Elements(filteredAppointments')})
      /\ currentDate' \in {currentDate, PreviousDate(currentDate, view),
                            NextDate(currentDate, view)} \cup Nows
    ]_vars

\* the agenda of [sprint, retreat, quarter] on 14 February, reached by
\* navigation: the sorted list is in another order than the array
C18_Witness ==
  /\ view = "agenda"
  /\ currentDate = At(2024, 2, 14, 15, 0)
  /\ Len(appointments) = 3
  /\ appointments[1].id = "sprint"
  /\ appointments[2].id = "retreat"
  /\ appointments[3].id = "quarter"
  /\ filteredAppointments = appointments
  /\ sortedAppointments = <<appointments[3], appointments[2], appointments[1]>>

-----------------------------------------------------------------------------
(* Properties of the form's submit *)

\* both times denote instants and the end is strictly after the start
EndsAfterStart(data) ==
  /\ WellFormed(data.startTime) /\ WellFormed(data.endTime)
  /\ InstantOf(data.endTime) > InstantOf(data.startTime)

\* C19: every data the form hands to onSubmit has endTime strictly after
\* startTime; a submit attempt on data with endTime <= startTime records
\* 'End time must be after start time' for endTime and onSubmit is not
\* invoked.
C19_EndAfterStart ==
  [][ /\ \A i \in 1..Len(submitted') : EndsAfterStart(submitted'[i])
      /\ ( /\ submits' = submits + 1
           /\ WellFormed(formData.startTime) /\ WellFormed(formData.endTime)
           /\ InstantOf(formData.endTime) <= InstantOf(formData.startTime) )
         => /\ "endTime" \in DOMAIN errors'
            /\ errors'["endTime"] = "End time must be after start time"
            /\ submitted' = submitted
    ]_vars

\* a submit attempt stopped by the order of the times alone
C19_Witness ==
  /\ submits = 1
  /\ submitted = <<>>
  /\ DOMAIN errors = {"endTime"}
  /\ errors["endTime"] = "End time must be after start time"

-----------------------------------------------------------------------------
(* Properties of the example host *)

\* C20: when a submit handled by the host completes as an update, every
\* stored appointment with the updated id gets isModerated = true,
\* moderatedBy = the acting user and moderatedAt = the time of the change if
\* the submitted status differs from the stored one, and keeps its three
\* moderation fields if it does not; when it completes as a creation, the
\* store grows by one appointment with isModerated = false.
C20_ModerationTracked ==
  [][ (hostPending # None /\ hostPending' = None) =>
        LET data == hostPending[1].data
            selected == hostPending[1].selectedAppointment
        IN  IF selected # None
            THEN /\ Len(hostAppointments') = Len(hostAppointments)
                 /\ \A k \in 1..Len(hostAppointments) :
                      LET before == hostAppointments[k]
                          after == hostAppointments'[k]
                      IN  IF before.id # selected[1].id THEN after = before
                          ELSE /\ after.status = data.status
                               /\ IF data.status # before.status
                                  THEN /\ after.isModerated = Some(TRUE)
                                       /\ after.moderatedBy = Some(CurrentUserId)
                                       /\ after.moderatedAt =
                                            Some(toISOString(hostNow'))
                                  ELSE /\ after.isModerated = before.isModerated
                                       /\ after.moderatedBy = before.moderatedBy
                                       /\ after.moderatedAt = before.moderatedAt
            ELSE /\ Len(hostAppointments') = Len(hostAppointments) + 1
                 /\ SubSeq(hostAppointments', 1, Len(hostAppointments))
                      = hostAppointments
                 /\ hostAppointments'[Len(hostAppointments')].isModerated
                      = Some(FALSE)
    ]_vars

\* a store after three submits: appointment 1 changed status and is marked
\* moderated by the acting user a minute after the start, appointment 2
\* kept its status and its earlier moderator, a third one was created
C20_Witness ==
  /\ Len(hostAppointments) = 3
  /\ hostAppointments[1].status = "confirmed"
  /\ hostAppointments[1].isModerated = Some(TRUE)
  /\ hostAppointments[1].moderatedBy = Some(CurrentUserId)
  /\ hostAppointments[1].moderatedAt = Some(Iso(2024, 2, 15, 15, 1))
  /\ hostAppointments[2].title = "Visit"
  /\ hostAppointments[2].moderatedBy = Some("moderator-7")
  /\ hostAppointments[3].isModerated = Some(FALSE)
  /\ hostPending = None

-----------------------------------------------------------------------------
(* Properties of the option lists *)

\* no two options of the list have the same value
DistinctValues(list) ==
  \A i, j \in 1..Len(list) : i # j => list[i].value # list[j].value

\* C21: every option list the resolver returns, for statuses, priorities and
\* types, has pairwise distinct values; the custom lists handed in have
\* distinct values themselves.
C21_ValuesDistinct ==
  apiFn = "getConfigurableOptions" => DistinctValues(apiRet)

\* a custom status list that shares the value 'scheduled' with the built-in
\* list comes back with that value once
C21_Witness ==
  /\ apiFn = "getConfigurableOptions" /\ apiArgs.type = "statuses"
  /\ apiArgs.config # None
  /\ apiArgs.config[1].statuses = ExtendedStatuses
  /\ "scheduled" \in OptionValues(defaultEnumConfig.statuses)
  /\ Cardinality({i \in 1..Len(apiRet) : apiRet[i].value = "scheduled"}) = 1

-----------------------------------------------------------------------------
(* Properties of the form *)

\* a rule of validateForm other than the order of the times fails on data
RuleFails(data) ==
  \/ Trim(data.title) = <<>>
  \/ data.startTime = EmptyString \/ data.endTime = EmptyString
  \/ (data.patientEmail # <<>> /\ ~EmailPattern(data.patientEmail))
  \/ (data.patientPhone # <<>>
        /\ ~PhonePattern(StripPhoneSeparators(data.patientPhone)))
  \/ (data.isOnlineAppointment /\ data.meetingLink = <<>>)

\* the fields of the form data other than the two times
OtherFields(data) == [k \in DOMAIN data \ {"startTime", "endTime"} |-> data[k]]

DateTimeEvent(field) ==
  /\ interactions' = interactions + 1
  /\ lastInput' # None
  /\ lastInput'[1].field = field

C24_InvalidInputIgnored ==
  [][ ( /\ interactions' = interactions + 1
        /\ lastInput' # None
        /\ ~WellFormed(lastInput'[1].value) )
      => formData' = formData /\ errors' = errors
    ]_vars

\* after a refused submit the end input is emptied: the message for endTime
\* is still there
C24_Witness ==
  /\ lastInput = Some([field |-> "endTime", value |-> EmptyString])
  /\ submits = 1
  /\ "endTime" \in DOMAIN errors
  /\ errors["endTime"] = "End time must be after start time"
  /\ WellFormed(formData.endTime)

\* C25: in create mode the time a user has just set in the start or end input
\* is the form's value for that field, whether defaultDate is kept, omitted
\* or passed inline.
C25_UserTimeKept ==
  ( /\ formProps # None /\ formProps.appointment = None
    /\ lastInput # None /\ WellFormed(lastInput[1].value) )
  => formData[lastInput[1].field] = lastInput[1].value

-----------------------------------------------------------------------------
(* Properties of the navigation *)

\* months since year 0 of the reference date
MonthIndex(date) == getFullYear(date) * 12 + getMonth(date)

\* C26: in MONTH view every step that moves the reference date, other than
\* Today, moves it into the month immediately after or immediately before
\* the current one, also from the 29th, 30th and 31st.
C26_MonthStep ==
  [][ ( /\ view = "month" /\ view' = "month"
        /\ currentDate' # currentDate
        /\ currentDate' \notin Nows )
      => MonthIndex(currentDate') - MonthIndex(currentDate) \in {-1, 1}
    ]_vars

\* C27: in MONTH, WEEK and DAY view, after a Next step a Previous step gives
\* back the reference date the Next step started from, and after a Previous
\* step a Next step does; a WEEK step moves by exactly 7 days and a DAY step
\* by exactly 1 day.
C27_NextPreviousRoundTrip ==
  [][ /\ ( /\ view \in {"month", "week", "day"} /\ view' = view
           /\ currentDate' # currentDate
           /\ currentDate' = NextDate(currentDate, view) )
         => /\ PreviousDate(currentDate', view) = currentDate
            /\ view = "week" => currentDate' = currentDate + 7 * 1440
            /\ view = "day" => currentDate' = currentDate + 1440
      /\ ( /\ view \in {"month", "week", "day"} /\ view' = view
           /\ currentDate' # currentDate
           /\ currentDate' = PreviousDate(currentDate, view) )
         => /\ NextDate(currentDate', view) = currentDate
            /\ view = "week" => currentDate' = currentDate - 7 * 1440
            /\ view = "day" => currentDate' = currentDate - 1440
    ]_vars

-----------------------------------------------------------------------------
(* Properties of the clicks *)

\* C28: in the month and week views a click on an appointment inside a day
\* cell makes it the selected appointment, calls onAppointmentClick exactly
\* once with it, calls onDateClick not at all and leaves the selected date
\* as it was; a click on the cell outside its appointments makes the cell's
\* date the selected date and calls onDateClick exactly once with it.
C28_ClickCallbacks ==
  [][ (lastClick' # None /\ view \in {"month", "week"})
      => IF lastClick'[1].appointment # None
         THEN /\ selectedAppointment' = lastClick'[1].appointment
              /\ lastClick'[1].onAppointmentClick =
                   <<lastClick'[1].appointment[1]>>
              /\ lastClick'[1].onDateClick = <<>>
              /\ selectedDate' = selectedDate
         ELSE /\ selectedDate' = lastClick'[1].cell
              /\ lastClick'[1].onDateClick = <<lastClick'[1].cell[1]>>
              /\ lastClick'[1].onAppointmentClick = <<>>
              /\ selectedAppointment' = selectedAppointment
    ]_vars

\* an appointment has been clicked in a month cell while the date of another
\* cell was selected
C28_Witness ==
  /\ view = "month" /\ lastClick # None
  /\ lastClick[1].appointment # None
  /\ selectedDate # None /\ selectedDate # lastClick[1].cell
  /\ selectedAppointment = lastClick[1].appointment

-----------------------------------------------------------------------------
(* Properties of generateTimeSlots *)

\* C29: every call of generateTimeSlots returns, whatever integer
\* intervalMinutes is (0 and negative values too) and whatever the two
\* HH:mm times are.
C29_Terminates == (slotsPc = "loop") ~> (slotsPc = "returned")

-----------------------------------------------------------------------------
(* Properties of a new form *)

\* the values of the option list the resolver returns
EffectiveValues(config, type) ==
  LET options == getConfigurableOptions(config, type)
  IN  {options[k].value : k \in 1..Len(options)}

\* C30: the status, priority and type a new form starts with are values of
\* the option lists the resolver returns for the form's enumConfig, whether
\* the enumConfig is absent, custom, or custom with an empty list.
C30_InitialValuesOffered ==
  ( /\ formProps # None /\ formProps.appointment = None
    /\ interactions = 0 /\ submits = 0 )
  => /\ formData.status \in EffectiveValues(formProps.enumConfig, "statuses")
     /\ formData.priority
          \in EffectiveValues(formProps.enumConfig, "priorities")
     /\ formData.type \in EffectiveValues(formProps.enumConfig, "types")

=============================================================================
